---------------------------- MODULE Spec2Model ----------------------------
(***************************************************************************)
(* A model of mytrie.py: the TrieSet class (a TrieBase whose nodes are the *)
(* lists [children, is_member]) and its query methods.                     *)
(*                                                                         *)
(* A key is a python str, modelled as the sequence of its one-character    *)
(* tokens; '' is the empty sequence.  A node [dict, bool] is the record    *)
(* [ch |-> function from the dict's keys to the sub-nodes, term |-> bool]. *)
(* A tuple offered as a key (not string-like) is a record of kind "tuple". *)
(***************************************************************************)
EXTENDS Integers, Sequences, FiniteSets, TLC

\* ------------------------------------------------------------------ bounds
\* the token alphabet of the keys offered to the trie
Tokens == {"a", "b"}

\* longest key added
MaxLen == 2

\* number of add calls in one run
MaxAdds == 2

\* longest text and longest pattern handed to KnuthMorrisPratt
MaxText == 6

MaxPattern == 3

\* queries are asked about strings one token longer than any key
QueryLen == MaxLen + 1

RECURSIVE StringsOfLen(_)
StringsOfLen(n) ==
    IF n = 0 THEN {<<>>}
    ELSE {s \o <<t>> : s \in StringsOfLen(n - 1), t \in Tokens}

Strings(n) == UNION {StringsOfLen(i) : i \in 0..n}

Keys == Strings(MaxLen)

QueryStrings == Strings(QueryLen)

\* python objects offered as keys: str instances and tuples of characters
StrObj(s) == [kind |-> "str", toks |-> s]

TupleObj(s) == [kind |-> "tuple", toks |-> s]

KeyObjects == {StrObj(s) : s \in Keys} \cup {TupleObj(<<"a", "b">>)}

\* the orders in which a dict may hand out its keys
TokenOrders ==
    {o \in [1..Cardinality(Tokens) -> Tokens] :
        \A i, j \in DOMAIN o : i # j => o[i] # o[j]}

\* ------------------------------------------------------------ the language
\* the default null_element of TrieSet.__init__
null_element == <<>>

\* p is a prefix of s (a leading run of its tokens)
IsPrefixOf(p, s) == Len(p) <= Len(s) /\ SubSeq(s, 1, Len(p)) = p

\* str.__contains__: sub occurs in s as a contiguous run
IsSubstring(sub, s) ==
    \E i \in 0..(Len(s) - Len(sub)) : SubSeq(s, i + 1, i + Len(sub)) = sub

\* reduce(operator.add, obj, nullObj) over the characters of a str
RECURSIVE reduce_add(_, _)
reduce_add(toks, acc) ==
    IF toks = <<>> THEN acc ELSE reduce_add(Tail(toks), acc \o <<Head(toks)>>)

isStringLike(obj, nullObj) ==
    IF obj.kind # "str"
    THEN FALSE      \* (nullObj in tuple) is False, or tuple + str raises
    ELSE /\ IsSubstring(nullObj, obj.toks)
         /\ nullObj \o obj.toks = obj.toks
         /\ obj.toks \o nullObj = obj.toks
         /\ IsSubstring(obj.toks, obj.toks)
         /\ reduce_add(obj.toks, nullObj) = obj.toks

\* ---------------------------------------------------------------- the tree
\* [{}, False]
EmptyDict == [t \in {} |-> 0]

NewNode == [ch |-> EmptyDict, term |-> FALSE]

\* dict.iterkeys() in the order o
RECURSIVE iterkeys(_, _)
iterkeys(node, o) ==
    IF o = <<>> THEN <<>>
    ELSE (IF Head(o) \in DOMAIN node.ch THEN <<Head(o)>> ELSE <<>>)
            \o iterkeys(node, Tail(o))

\* the TrieSet under test: its _root, the keys added to it so far, the number
\* of add calls made, the last call and what it returned or raised
VARIABLES root, added, nadds, call, ret

\* a second TrieSet, the argument of union, intersection and issubset: its
\* _root and _null_element, and the keys added to it so far
VARIABLES other, otherAdded

setVars == <<other, otherAdded>>

\* one run of the generator KnuthMorrisPratt(text, pattern): its arguments,
\* its locals (c is the last of the nread tokens taken from text), the
\* positions it has yielded and where it stands
VARIABLES text, pattern, shifts, shift, pos, startPos, matchLen, nread, yielded, pc

kmpVars == <<text, pattern, shifts, shift, pos, startPos, matchLen, nread, yielded, pc>>

vars == <<root, added, nadds, call, ret, setVars, kmpVars>>

\* add that stores a new node for every token, present or not
RECURSIVE add_walk_alwaysNew(_, _)
add_walk_alwaysNew(cur_node, key) ==
    IF key = <<>>
    THEN [cur_node EXCEPT !.term = TRUE]
    ELSE [cur_node EXCEPT
            !.ch = [t \in DOMAIN cur_node.ch \cup {Head(key)} |->
                      IF t = Head(key) THEN add_walk_alwaysNew(NewNode, Tail(key))
                      ELSE cur_node.ch[t]]]

\* TrieSet.add, the walk from cur_node along key, creating what is missing
RECURSIVE add_walk(_, _)
add_walk(cur_node, key) ==
    IF key = <<>>
    THEN [cur_node EXCEPT !.term = TRUE]
    ELSE LET el == Head(key)
             sub == IF el \in DOMAIN cur_node.ch THEN cur_node.ch[el] ELSE NewNode
         IN  [cur_node EXCEPT
                !.ch = [t \in DOMAIN cur_node.ch \cup {el} |->
                          IF t = el THEN add_walk(sub, Tail(key))
                          ELSE cur_node.ch[t]]]

\* TrieBase.__nodeOf: the node at the end of key, or None
None == [none |-> TRUE]

RECURSIVE nodeOf_walk(_, _)
nodeOf_walk(cur_node, key) ==
    IF key = <<>> THEN cur_node
    ELSE IF Head(key) \in DOMAIN cur_node.ch
         THEN nodeOf_walk(cur_node.ch[Head(key)], Tail(key))
         ELSE None

nodeOf(self, key) == nodeOf_walk(self, key)

\* TrieBase.__contains__
RECURSIVE contains_walk(_, _)
contains_walk(cur_node, key) ==
    IF key = <<>> THEN cur_node.term
    ELSE IF Head(key) \in DOMAIN cur_node.ch
         THEN contains_walk(cur_node.ch[Head(key)], Tail(key))
         ELSE FALSE

\* __contains__ returning True at the end of the walk, whatever cur_node[1] is
contains_nodeFound(self, key) == nodeOf_walk(self, key) # None

contains(self, key) == contains_walk(self, key)

\* TrieBase.has_extension_of
has_extension_of(self, prefix) == nodeOf(self, prefix) # None

\* TrieBase.__pathTo: the nodes it yields, and whether the KeyError of a
\* missing child ended it
RECURSIVE pathTo(_, _)
pathTo(cur_node, key) ==
    IF key = <<>> THEN [nodes |-> <<cur_node>>, raised |-> FALSE]
    ELSE IF Head(key) \in DOMAIN cur_node.ch
         THEN LET rest == pathTo(cur_node.ch[Head(key)], Tail(key))
              IN  [nodes |-> <<cur_node>> \o rest.nodes, raised |-> rest.raised]
         ELSE [nodes |-> <<cur_node>>, raised |-> TRUE]

\* TrieBase.__generateKeys(cur_node, prefix), the dicts read in the order o;
\* a prefix of None is the empty (false) prefix
RECURSIVE generateKeys(_, _, _, _)
RECURSIVE generateKeys_items(_, _, _, _)
generateKeys(self, cur_node, prefix, o) ==
    LET cn == IF cur_node = None THEN self ELSE cur_node
        pf == IF prefix = <<>> THEN null_element ELSE prefix
    IN  (IF cn.term THEN <<pf>> ELSE <<>>)
            \o generateKeys_items(self, iterkeys(cn, o), [node |-> cn, prefix |-> pf], o)

generateKeys_items(self, els, at, o) ==
    IF els = <<>> THEN <<>>
    ELSE generateKeys(self, at.node.ch[Head(els)], at.prefix \o <<Head(els)>>, o)
            \o generateKeys_items(self, Tail(els), at, o)

\* __iter__ that starts below the root and never looks at the root's flag
iter_belowRoot(self, o) ==
    generateKeys_items(self, iterkeys(self, o), [node |-> self, prefix |-> null_element], o)

\* TrieBase.__iter__
iter(self, o) == generateKeys(self, None, <<>>, o)

\* dict.itervalues() in the order o
RECURSIVE itervalues(_, _)
itervalues(node, o) ==
    IF o = <<>> THEN <<>>
    ELSE (IF Head(o) \in DOMAIN node.ch THEN <<node.ch[Head(o)]>> ELSE <<>>)
            \o itervalues(node, Tail(o))

\* TrieBase.__len__: the loop over the explicit stack
RECURSIVE len_loop(_, _, _)
len_loop(stack, n, o) ==
    IF stack = <<>> THEN n
    ELSE LET cur_node == stack[Len(stack)]
             popped == SubSeq(stack, 1, Len(stack) - 1)
         IN  len_loop(popped \o itervalues(cur_node, o),
                      IF cur_node.term THEN n + 1 ELSE n, o)

len(self, o) == len_loop(itervalues(self, o), 0, o)

Ok(v) == [err |-> "none", val |-> v]

Raise(e) == [err |-> e, val |-> <<>>]

\* the KeyError of successors, suffixes and maximal_suffix
NotAPrefix == Raise("KeyError")

\* TrieBase.successors, read to its end
RECURSIVE successors_loop(_, _)
successors_loop(els, prefix) ==
    IF els = <<>> THEN <<>>
    ELSE <<prefix \o <<Head(els)>>>> \o successors_loop(Tail(els), prefix)

\* successors that yields the child tokens alone, not prefix + el
successors_tokensOnly(self, prefix, o) ==
    LET node == nodeOf(self, prefix)
    IN  IF node = None THEN NotAPrefix
        ELSE Ok(successors_loop(iterkeys(node, o), null_element))

successors(self, prefix, o) ==
    LET node == nodeOf(self, prefix)
    IN  IF node = None THEN NotAPrefix
        ELSE Ok(successors_loop(iterkeys(node, o), prefix))

\* TrieBase.__generateSubNodes: the (node, prefix) pairs it yields
RECURSIVE generateSubNodes(_, _, _)
RECURSIVE generateSubNodes_items(_, _, _, _)
generateSubNodes(start_node, prefix, o) ==
    <<[node |-> start_node, subel |-> prefix]>>
        \o generateSubNodes_items(iterkeys(start_node, o), start_node, prefix, o)

generateSubNodes_items(els, start_node, prefix, o) ==
    IF els = <<>> THEN <<>>
    ELSE generateSubNodes(start_node.ch[Head(els)], prefix \o <<Head(els)>>, o)
            \o generateSubNodes_items(Tail(els), start_node, prefix, o)

\* TrieBase.suffixes, read to its end
RECURSIVE suffixes_loop(_, _)
suffixes_loop(pairs, members_only) ==
    IF pairs = <<>> THEN <<>>
    ELSE (IF (~members_only) \/ Head(pairs).node.term
          THEN <<Head(pairs).subel>> ELSE <<>>)
            \o suffixes_loop(Tail(pairs), members_only)

\* suffixes that starts the sub-node walk at prefix, not at the null element
suffixes_fromPrefix(self, prefix, members_only, o) ==
    LET node == nodeOf(self, prefix)
    IN  IF node = None THEN NotAPrefix
        ELSE Ok(suffixes_loop(generateSubNodes(node, prefix, o), members_only))

suffixes(self, prefix, members_only, o) ==
    LET node == nodeOf(self, prefix)
    IN  IF node = None THEN NotAPrefix
        ELSE Ok(suffixes_loop(generateSubNodes(node, null_element, o), members_only))

\* TrieBase.maximal_suffix
RECURSIVE maximal_suffix_loop(_, _)
maximal_suffix_loop(pairs, maxSuff) ==
    IF pairs = <<>> THEN maxSuff
    ELSE maximal_suffix_loop(Tail(pairs),
            IF Head(pairs).node.term /\ Len(Head(pairs).subel) > Len(maxSuff)
            THEN Head(pairs).subel ELSE maxSuff)

maximal_suffix(self, prefix, o) ==
    LET node == nodeOf(self, prefix)
    IN  IF node = None THEN NotAPrefix
        ELSE Ok(maximal_suffix_loop(generateSubNodes(node, null_element, o),
                                    null_element))

\* TrieBase.extensions, read to its end
RECURSIVE extensions_loop(_, _)
extensions_loop(suffs, prefix) ==
    IF suffs = <<>> THEN <<>>
    ELSE <<prefix \o Head(suffs)>> \o extensions_loop(Tail(suffs), prefix)

extensions(self, prefix, members_only, o) ==
    LET s == suffixes(self, prefix, members_only, o)
    IN  IF s.err # "none" THEN s ELSE Ok(extensions_loop(s.val, prefix))

\* TrieBase.maximal_extension
maximal_extension(self, prefix, o) ==
    LET s == maximal_suffix(self, prefix, o)
    IN  IF s.err # "none" THEN s ELSE Ok(prefix \o s.val)

\* string[:i+1], the slice taken one token too far
Slice_offByOne(string, i) ==
    SubSeq(string, 1, IF i + 1 > Len(string) THEN Len(string) ELSE i + 1)

\* string[:i]
Slice(string, i) == SubSeq(string, 1, i)

\* TrieBase.prefixes, read to its end: enumerate() counts the nodes from 0
RECURSIVE prefixes_loop(_, _, _)
prefixes_loop(nodes, i, string) ==
    IF nodes = <<>> THEN <<>>
    ELSE (IF Head(nodes).term THEN <<Slice(string, i)>> ELSE <<>>)
            \o prefixes_loop(Tail(nodes), i + 1, string)

prefixes(self, string) == Ok(prefixes_loop(pathTo(self, string).nodes, 0, string))

\* TrieBase.maximal_prefix: mi is -1 for None
RECURSIVE maximal_prefix_loop(_, _, _)
maximal_prefix_loop(nodes, i, mi) ==
    IF nodes = <<>> THEN mi
    ELSE maximal_prefix_loop(Tail(nodes), i + 1, IF Head(nodes).term THEN i ELSE mi)

NoPrefixFound == Raise("KeyError")

\* maximal_prefix testing "if mi:" where the code tests "if mi is not None:"
maximal_prefix_truthy(self, string) ==
    LET mi == maximal_prefix_loop(pathTo(self, string).nodes, 0, -1)
    IN  IF mi # -1 /\ mi # 0 THEN Ok(Slice(string, mi)) ELSE NoPrefixFound

maximal_prefix(self, string) ==
    LET mi == maximal_prefix_loop(pathTo(self, string).nodes, 0, -1)
    IN  IF mi # -1 THEN Ok(Slice(string, mi)) ELSE NoPrefixFound

\* ------------------------------------------------------- the set algebra
\* the null element of a string-like type that is not str
UserNull == [kind |-> "user", toks |-> <<>>]

\* isStringLike(obj, nullObj) for nullObj of any type: with a nullObj that is
\* not a str, (nullObj in obj) raises for a str or is False for a tuple
isStringLikeFor(obj, nullObj) ==
    IF nullObj.kind = obj.kind /\ obj.kind # "tuple"
    THEN isStringLike([obj EXCEPT !.kind = "str"], nullObj.toks)
    ELSE FALSE

\* set(iterable): the elements of a sequence
set_of(seq) == {seq[i] : i \in DOMAIN seq}

\* iterating a set: some order of its elements
RECURSIVE iter_set(_)
iter_set(S) ==
    IF S = {} THEN <<>>
    ELSE LET x == CHOOSE y \in S : TRUE IN <<x>> \o iter_set(S \ {x})

\* TrieSet.update: add(key) for each key, until one raises
RECURSIVE update_loop(_, _, _)
update_loop(cur_root, keys, nullObj) ==
    IF keys = <<>> THEN [root |-> cur_root, err |-> "none"]
    ELSE IF ~isStringLikeFor(Head(keys), nullObj)
         THEN [root |-> cur_root, err |-> "TypeError"]
         ELSE update_loop(add_walk(cur_root, Head(keys).toks), Tail(keys), nullObj)

\* TrieSet(contents, null_element=nullObj)
TrieSet(contents, nullObj) ==
    IF ~isStringLikeFor(nullObj, nullObj) THEN Raise("TypeError")
    ELSE LET u == update_loop(NewNode, contents, nullObj)
         IN  IF u.err # "none" THEN Raise(u.err)
             ELSE Ok([root |-> u.root, null_element |-> nullObj])

\* the keys of a set as objects of the type of nullObj, in iteration order
KeysOfType(S, nullObj) ==
    LET q == iter_set(S) IN [i \in DOMAIN q |-> [kind |-> nullObj.kind, toks |-> q[i]]]

\* intersection that returns the keys of self alone
intersection_selfOnly(self, trieset, o) ==
    IF self.null_element # trieset.null_element THEN Raise("ValueError")
    ELSE TrieSet(KeysOfType(set_of(iter(self.root, o)), self.null_element),
                 self.null_element)

\* TrieSet.union
union(self, trieset, o) ==
    IF self.null_element # trieset.null_element THEN Raise("ValueError")
    ELSE TrieSet(KeysOfType(set_of(iter(self.root, o)) \cup set_of(iter(trieset.root, o)),
                            self.null_element),
                 self.null_element)

\* TrieSet.intersection
intersection(self, trieset, o) ==
    IF self.null_element # trieset.null_element THEN Raise("ValueError")
    ELSE TrieSet(KeysOfType(set_of(iter(self.root, o)) \cap set_of(iter(trieset.root, o)),
                            self.null_element),
                 self.null_element)

\* TrieSet.issubset
RECURSIVE issubset_loop(_, _)
issubset_loop(elements, trieset) ==
    IF elements = <<>> THEN TRUE
    ELSE IF ~contains(trieset.root, Head(elements)) THEN FALSE
         ELSE issubset_loop(Tail(elements), trieset)

issubset(self, trieset, o) == issubset_loop(iter(self.root, o), trieset)

\* TrieSet.issuperset
issuperset(self, trieset, o) == issubset(trieset, self, o)

\* TrieSet.__eq__
eq(self, trieset, o) == issubset(self, trieset, o) /\ issubset(trieset, self, o)

\* TrieSet(): the fields of a new, empty TrieSet
InitSelf ==
    /\ root = NewNode
    /\ added = {}
    /\ nadds = 0
    /\ call = [op |-> "init", arg |-> <<>>, members_only |-> TRUE]
    /\ ret = Ok(<<>>)

\* TrieSet(null_element=nullObj), as a value
EmptyTrieSet(nullObj) == [root |-> NewNode, null_element |-> nullObj]

\* no KnuthMorrisPratt generator has been made
NoKMP ==
    /\ text = <<>>
    /\ pattern = <<>>
    /\ shifts = <<>>
    /\ shift = 0
    /\ pos = 0
    /\ startPos = 0
    /\ matchLen = 0
    /\ nread = 0
    /\ yielded = <<>>
    /\ pc = "none"

Init ==
    /\ InitSelf
    /\ other = EmptyTrieSet(StrObj(null_element))
    /\ otherAdded = {}
    /\ NoKMP

\* TrieSet.add(key)
Add ==
    /\ nadds < MaxAdds
    /\ \E key \in KeyObjects :
        /\ call' = [op |-> "add", arg |-> key.toks, members_only |-> TRUE]
        /\ nadds' = nadds + 1
        /\ UNCHANGED <<setVars, kmpVars>>
        /\ IF ~isStringLike(key, null_element)
           THEN /\ ret' = Raise("TypeError")
                /\ UNCHANGED <<root, added>>
           ELSE /\ root' = add_walk(root, key.toks)
                /\ added' = added \cup {key.toks}
                /\ ret' = Ok(<<>>)

Query(op, arg, mo) == [op |-> op, arg |-> arg, members_only |-> mo]

\* A query leaves root, added and nadds as they are, so what it returns after
\* another query is what it returns after the call that last touched the
\* tree: every state a query can reach, it reaches from a state the
\* constructor or an add left, and queries are taken from those states.
TreeJustTouched == call.op \in {"init", "add", "update"}

\* key in trie
Contains ==
    /\ TreeJustTouched
    /\ \E key \in QueryStrings :
        /\ call' = Query("contains", key, TRUE)
        /\ ret' = Ok(contains(root, key))
        /\ UNCHANGED <<root, added, nadds, setVars, kmpVars>>

\* trie.has_extension_of(prefix)
HasExtensionOf ==
    /\ TreeJustTouched
    /\ \E prefix \in Keys :
        /\ call' = Query("has_extension_of", prefix, TRUE)
        /\ ret' = Ok(has_extension_of(root, prefix))
        /\ UNCHANGED <<root, added, nadds, setVars, kmpVars>>

\* list(trie)
Iter ==
    /\ TreeJustTouched
    /\ \E o \in TokenOrders :
        /\ call' = Query("iter", <<>>, TRUE)
        /\ ret' = Ok(iter(root, o))
        /\ UNCHANGED <<root, added, nadds, setVars, kmpVars>>

\* len(trie)
LenOf ==
    /\ TreeJustTouched
    /\ \E o \in TokenOrders :
        /\ call' = Query("len", <<>>, TRUE)
        /\ ret' = Ok(len(root, o))
        /\ UNCHANGED <<root, added, nadds, setVars, kmpVars>>

\* list(trie.successors(prefix))
Successors ==
    /\ TreeJustTouched
    /\ \E prefix \in Keys, o \in TokenOrders :
        /\ call' = Query("successors", prefix, TRUE)
        /\ ret' = successors(root, prefix, o)
        /\ UNCHANGED <<root, added, nadds, setVars, kmpVars>>

\* list(trie.suffixes(prefix, members_only))
Suffixes ==
    /\ TreeJustTouched
    /\ \E prefix \in Keys, mo \in BOOLEAN, o \in TokenOrders :
        /\ call' = Query("suffixes", prefix, mo)
        /\ ret' = suffixes(root, prefix, mo, o)
        /\ UNCHANGED <<root, added, nadds, setVars, kmpVars>>

\* list(trie.extensions(prefix, members_only))
Extensions ==
    /\ TreeJustTouched
    /\ \E prefix \in Keys, mo \in BOOLEAN, o \in TokenOrders :
        /\ call' = Query("extensions", prefix, mo)
        /\ ret' = extensions(root, prefix, mo, o)
        /\ UNCHANGED <<root, added, nadds, setVars, kmpVars>>

\* trie.maximal_suffix(prefix)
MaximalSuffix ==
    /\ TreeJustTouched
    /\ \E prefix \in Keys, o \in TokenOrders :
        /\ call' = Query("maximal_suffix", prefix, TRUE)
        /\ ret' = maximal_suffix(root, prefix, o)
        /\ UNCHANGED <<root, added, nadds, setVars, kmpVars>>

\* trie.maximal_extension(prefix)
MaximalExtension ==
    /\ TreeJustTouched
    /\ \E prefix \in Keys, o \in TokenOrders :
        /\ call' = Query("maximal_extension", prefix, TRUE)
        /\ ret' = maximal_extension(root, prefix, o)
        /\ UNCHANGED <<root, added, nadds, setVars, kmpVars>>

\* list(trie.prefixes(string))
Prefixes ==
    /\ TreeJustTouched
    /\ \E string \in QueryStrings :
        /\ call' = Query("prefixes", string, TRUE)
        /\ ret' = prefixes(root, string)
        /\ UNCHANGED <<root, added, nadds, setVars, kmpVars>>

\* trie.maximal_prefix(string)
MaximalPrefix ==
    /\ TreeJustTouched
    /\ \E string \in QueryStrings :
        /\ call' = Query("maximal_prefix", string, TRUE)
        /\ ret' = maximal_prefix(root, string)
        /\ UNCHANGED <<root, added, nadds, setVars, kmpVars>>

Next ==
    \/ Add
    \/ Contains
    \/ HasExtensionOf
    \/ Iter
    \/ LenOf
    \/ Successors
    \/ Suffixes
    \/ Extensions
    \/ MaximalSuffix
    \/ MaximalExtension
    \/ Prefixes
    \/ MaximalPrefix


Spec == Init /\ [][Next]_vars

\* ------------------------------------------- two TrieSets and their algebra
\* the keys the second TrieSet is built from
OtherKeys == {<<>>, <<"a">>, <<"a", "b">>}

\* the TrieSet under test, as a value
SelfTrie == [root |-> root, null_element |-> StrObj(null_element)]

\* the objects update is handed: some keys, and a tuple
UpdateObjects == {StrObj(k) : k \in OtherKeys} \cup {TupleObj(<<"a", "b">>)}

\* the lists of at most n objects handed to update
KeyLists(n) == UNION {[1..m -> UpdateObjects] : m \in 0..n}

\* the keys of a list that come before its first key that is not string-like
RECURSIVE KeysBeforeFailure(_)
KeysBeforeFailure(keys) ==
    IF keys = <<>> \/ Head(keys).kind # "str" THEN {}
    ELSE {Head(keys).toks} \cup KeysBeforeFailure(Tail(keys))

\* trieset = TrieSet(contents) or TrieSet(null_element=UserNull), next to an
\* empty TrieSet()
InitSets ==
    /\ InitSelf
    /\ \E S \in SUBSET OtherKeys, nullObj \in {StrObj(null_element), UserNull} :
        /\ nullObj = UserNull => S = {}
        /\ other = TrieSet(KeysOfType(S, nullObj), nullObj).val
        /\ otherAdded = S
    /\ NoKMP

\* TrieSet.update(keys); like a query, it is taken from the states the
\* constructor, an add or an update left: after a query it does what it does
\* after the call before that query
Update ==
    /\ TreeJustTouched
    /\ \E keys \in KeyLists(MaxAdds - nadds) :
        LET u == update_loop(root, keys, StrObj(null_element))
        IN  /\ call' = [op |-> "update", arg |-> keys, members_only |-> TRUE]
            /\ nadds' = nadds + Len(keys)
            /\ root' = u.root
            /\ added' = added \cup KeysBeforeFailure(keys)
            /\ ret' = IF u.err = "none" THEN Ok(<<>>) ELSE Raise(u.err)
            /\ UNCHANGED <<setVars, kmpVars>>

\* the two ways to pick the receiver and the argument of a binary operation
Operands == {<<SelfTrie, other>>, <<other, SelfTrie>>}

\* what a binary operation was called on, and what it returned
Binary(ab, r) ==
    [err |-> r.err, val |-> [self |-> ab[1], trieset |-> ab[2], result |-> r.val]]

\* a.union(b), a | b
Union ==
    /\ TreeJustTouched
    /\ \E ab \in Operands, o \in TokenOrders :
        /\ call' = Query("union", <<>>, TRUE)
        /\ ret' = Binary(ab, union(ab[1], ab[2], o))
        /\ UNCHANGED <<root, added, nadds, setVars, kmpVars>>

\* a.intersection(b), a & b
Intersection ==
    /\ TreeJustTouched
    /\ \E ab \in Operands, o \in TokenOrders :
        /\ call' = Query("intersection", <<>>, TRUE)
        /\ ret' = Binary(ab, intersection(ab[1], ab[2], o))
        /\ UNCHANGED <<root, added, nadds, setVars, kmpVars>>

\* a.issubset(b)
Issubset ==
    /\ TreeJustTouched
    /\ \E ab \in Operands, o \in TokenOrders :
        /\ call' = Query("issubset", <<>>, TRUE)
        /\ ret' = Binary(ab, Ok(issubset(ab[1], ab[2], o)))
        /\ UNCHANGED <<root, added, nadds, setVars, kmpVars>>

\* a.issuperset(b)
Issuperset ==
    /\ TreeJustTouched
    /\ \E ab \in Operands, o \in TokenOrders :
        /\ call' = Query("issuperset", <<>>, TRUE)
        /\ ret' = Binary(ab, Ok(issuperset(ab[1], ab[2], o)))
        /\ UNCHANGED <<root, added, nadds, setVars, kmpVars>>

\* a == b
Eq ==
    /\ TreeJustTouched
    /\ \E ab \in Operands, o \in TokenOrders :
        /\ call' = Query("eq", <<>>, TRUE)
        /\ ret' = Binary(ab, Ok(eq(ab[1], ab[2], o)))
        /\ UNCHANGED <<root, added, nadds, setVars, kmpVars>>

NextSets ==
    \/ Add
    \/ Update
    \/ Union
    \/ Intersection
    \/ Issubset
    \/ Issuperset
    \/ Eq

SpecSets == InitSets /\ [][NextSets]_vars

\* ------------------------------------------------------ KnuthMorrisPratt
\* seq[i] of python: i counts from 0, a negative i counts from the end, and
\* any other i raises IndexError
InRange(seq, i) == -Len(seq) <= i /\ i < Len(seq)

PyIndex(seq, i) == IF i >= 0 THEN seq[i + 1] ELSE seq[Len(seq) + i + 1]

\* [1] * (len(pattern) + 1)
Ones(n) == [i \in 1..n |-> 1]

\* KnuthMorrisPratt(text, pattern), before its first statement
InitKMP ==
    /\ InitSelf
    /\ other = EmptyTrieSet(StrObj(null_element))
    /\ otherAdded = {}
    /\ text \in Strings(MaxText)
    /\ pattern \in Strings(MaxPattern)
    /\ shifts = Ones(Len(pattern) + 1)
    /\ shift = 1
    /\ pos = 0
    /\ startPos = 0
    /\ matchLen = 0
    /\ nread = 0
    /\ yielded = <<>>
    /\ pc = "for_pos"

trieVars == <<root, added, nadds, call, ret, setVars>>

\* an index out of range ends the generator with IndexError
RaiseIndexError ==
    /\ pc' = "IndexError"
    /\ UNCHANGED <<text, pattern, shifts, shift, pos, startPos, matchLen, nread, yielded>>

\* for pos in xrange(len(pattern)); after the loop, startPos = 0; matchLen = 0
KMP_ForPos ==
    /\ pc = "for_pos"
    /\ IF pos < Len(pattern)
       THEN /\ pc' = "while_shift"
            /\ UNCHANGED <<startPos, matchLen>>
       ELSE /\ startPos' = 0
            /\ matchLen' = 0
            /\ pc' = "for_c"
    /\ UNCHANGED <<text, pattern, shifts, shift, pos, nread, yielded, trieVars>>

\* the test with "shift < pos" for "shift <= pos"
while_shift_test_strict ==
    IF shift < pos
    THEN IF ~(InRange(pattern, pos) /\ InRange(pattern, pos - shift)) THEN "IndexError"
         ELSE IF PyIndex(pattern, pos) # PyIndex(pattern, pos - shift) THEN "loop"
         ELSE "exit"
    ELSE "exit"

\* while shift <= pos and pattern[pos] != pattern[pos-shift]
while_shift_test ==
    IF shift <= pos
    THEN IF ~(InRange(pattern, pos) /\ InRange(pattern, pos - shift)) THEN "IndexError"
         ELSE IF PyIndex(pattern, pos) # PyIndex(pattern, pos - shift) THEN "loop"
         ELSE "exit"
    ELSE "exit"

\* the while loop of the table: shift += shifts[pos-shift], and after it
\* shifts[pos+1] = shift
KMP_WhileShift ==
    /\ pc = "while_shift"
    /\ UNCHANGED trieVars
    /\ IF while_shift_test = "IndexError" THEN RaiseIndexError
       ELSE IF while_shift_test = "loop"
       THEN IF ~InRange(shifts, pos - shift) THEN RaiseIndexError
            ELSE /\ shift' = shift + PyIndex(shifts, pos - shift)
                 /\ UNCHANGED <<text, pattern, shifts, pos, startPos, matchLen, nread,
                                yielded, pc>>
       ELSE IF ~InRange(shifts, pos + 1) THEN RaiseIndexError
            ELSE /\ shifts' = [shifts EXCEPT ![pos + 2] = shift]
                 /\ pos' = pos + 1
                 /\ pc' = "for_pos"
                 /\ UNCHANGED <<text, pattern, shift, startPos, matchLen, nread, yielded>>

\* for c in text
KMP_ForC ==
    /\ pc = "for_c"
    /\ IF nread < Len(text)
       THEN /\ nread' = nread + 1
            /\ pc' = "while_match"
       ELSE /\ pc' = "done"
            /\ UNCHANGED nread
    /\ UNCHANGED <<text, pattern, shifts, shift, pos, startPos, matchLen, yielded, trieVars>>

\* the token the for loop holds
c == text[nread]

\* the test without "matchLen >= 0 and"
while_match_test_noFloor ==
    IF matchLen = Len(pattern) THEN "loop"
    ELSE IF ~InRange(pattern, matchLen) THEN "IndexError"
         ELSE IF PyIndex(pattern, matchLen) # c THEN "loop"
         ELSE "exit"

\* while matchLen == len(pattern) or matchLen >= 0 and pattern[matchLen] != c
while_match_test ==
    IF matchLen = Len(pattern) THEN "loop"
    ELSE IF matchLen >= 0
         THEN IF ~InRange(pattern, matchLen) THEN "IndexError"
              ELSE IF PyIndex(pattern, matchLen) # c THEN "loop"
              ELSE "exit"
         ELSE "exit"

\* the while loop of the search: startPos += shifts[matchLen]; matchLen -=
\* shifts[matchLen]; and after it matchLen += 1 and the yield of a full match
KMP_WhileMatch ==
    /\ pc = "while_match"
    /\ UNCHANGED trieVars
    /\ IF while_match_test = "IndexError" THEN RaiseIndexError
       ELSE IF while_match_test = "loop"
       THEN IF ~InRange(shifts, matchLen) THEN RaiseIndexError
            ELSE /\ startPos' = startPos + PyIndex(shifts, matchLen)
                 /\ matchLen' = matchLen - PyIndex(shifts, matchLen)
                 /\ UNCHANGED <<text, pattern, shifts, shift, pos, nread, yielded, pc>>
       ELSE /\ matchLen' = matchLen + 1
            /\ yielded' = IF matchLen + 1 = Len(pattern)
                          THEN Append(yielded, startPos) ELSE yielded
            /\ pc' = "for_c"
            /\ UNCHANGED <<text, pattern, shifts, shift, pos, startPos, nread>>

NextKMP ==
    \/ KMP_ForPos
    \/ KMP_WhileShift
    \/ KMP_ForC
    \/ KMP_WhileMatch

SpecKMP == InitKMP /\ [][NextKMP]_vars

\* --------------------------------------------------------------- the claims
\* the elements of a sequence
Range(seq) == {seq[i] : i \in DOMAIN seq}

\* no element occurs twice
NoDup(seq) == \A i, j \in DOMAIN seq : i # j => seq[i] # seq[j]

\* p is a prefix of at least one stored key
IsStoredPrefix(p) == \E k \in added : IsPrefixOf(p, k)

\* the paths from node to the nodes below it (itself included), and those
\* among them that end at a node whose flag is set
RECURSIVE NodePaths(_)
NodePaths(node) ==
    {<<>>} \cup UNION {{<<t>> \o q : q \in NodePaths(node.ch[t])} : t \in DOMAIN node.ch}

RECURSIVE TerminalPaths(_)
TerminalPaths(node) ==
    (IF node.term THEN {<<>>} ELSE {})
        \cup UNION {{<<t>> \o q : q \in TerminalPaths(node.ch[t])} : t \in DOMAIN node.ch}

\* C1: len() of a TrieSet built by adding the keys of K (K may contain the
\* empty key) is the number of distinct elements of K, which is also the
\* number of keys the enumeration of the trie produces.
C1_LenIsDistinctCount ==
    /\ call.op = "len" => ret.val = Cardinality(added)
    /\ call.op = "iter" => Len(ret.val) = Cardinality(added)

\* C2: k in trie is true exactly for the keys added so far (a proper prefix
\* of an added key is not contained unless added itself, the empty key is
\* contained iff the root's flag was set by adding it), and a contained key
\* stays contained.
C2_ContainsExactlyAdded ==
    /\ [](/\ \A k \in QueryStrings : contains(root, k) = (k \in added)
          /\ root.term = (<<>> \in added)
          /\ call.op = "contains" => ret.val = (call.arg \in added))
    /\ [][\A k \in QueryStrings : contains(root, k) => contains(root', k)]_vars

\* C2 witness: after two adds, k in trie answered False for a proper prefix of
\* an added key and the empty key is stored
C2_Witness ==
    /\ call.op = "contains"
    /\ ret.val = FALSE
    /\ <<>> \in added
    /\ \E k \in added : IsPrefixOf(call.arg, k) /\ call.arg # k

\* C3: whatever the order and the repetitions of the adds, iterating the trie
\* yields each distinct added key exactly once and nothing else, the empty key
\* included when it was added.
C3_IterIsPermutation ==
    call.op = "iter" => /\ ret.err = "none"
                        /\ NoDup(ret.val)
                        /\ Range(ret.val) = added

\* C3 witness: an enumeration of a trie that stores the empty key and another
C3_Witness ==
    /\ call.op = "iter"
    /\ <<>> \in added
    /\ Cardinality(added) = 2
    /\ Len(ret.val) = 2

\* C4: the tree depends only on the set of keys added: its node paths are the
\* prefixes of the added keys (plus the root), its terminal nodes are the
\* added keys, and adding a key that is already present leaves it unchanged.
C4_TreeIsFunctionOfKeySet ==
    /\ [](/\ NodePaths(root) = {<<>>} \cup {p \in Keys : IsStoredPrefix(p)}
          /\ TerminalPaths(root) = added)
    /\ [][(call'.op = "add" /\ ret'.err = "none" /\ nadds' # nadds
            /\ call'.arg \in added) => root' = root]_vars

\* C4 witness: the second add offered a key that was already there
C4_Witness ==
    /\ call.op = "add"
    /\ ret.err = "none"
    /\ nadds = 2
    /\ added = {call.arg}
    /\ Len(call.arg) = 2

\* C5: in every trie state (the trie with no keys included) and for every p
\* (the empty sequence included), has_extension_of(p) is true iff p is a
\* prefix of at least one stored key.
C5_HasExtensionIffStoredPrefix ==
    call.op = "has_extension_of" => ret.val = IsStoredPrefix(call.arg)

\* C6: successors(p), suffixes(p, ...), extensions(p, ...) and
\* maximal_suffix(p) raise the KeyError exactly when p is not a prefix of any
\* stored key; a known prefix with no extensions gives an empty result.
C6_KeyErrorIffNotStoredPrefix ==
    call.op \in {"successors", "suffixes", "extensions", "maximal_suffix"}
        => ((ret.err = "KeyError") = ~IsStoredPrefix(call.arg))

\* C7: when maximal_suffix(p) returns s, p+s is a contained key and no
\* contained key that begins with p is longer; s is the empty sequence exactly
\* when p is contained and has no longer contained extension;
\* maximal_extension(p) returns p+s for such an s.
C7_MaximalSuffixIsStoredAndLongest ==
    LET p == call.arg
        Longest(k) == /\ k \in added
                      /\ IsPrefixOf(p, k)
                      /\ \A k2 \in added : IsPrefixOf(p, k2) => Len(k2) <= Len(k)
    IN  /\ (call.op = "maximal_suffix" /\ ret.err = "none") =>
            /\ Longest(p \o ret.val)
            /\ (ret.val = <<>>) =
                 (p \in added /\ ~\E k \in added : IsPrefixOf(p, k) /\ Len(k) > Len(p))
        /\ (call.op = "maximal_extension" /\ ret.err = "none") =>
            /\ Longest(ret.val)
            /\ \E o \in TokenOrders : ret.val = p \o maximal_suffix(root, p, o).val

\* C8: prefixes(x) yields exactly the stored keys that are prefixes of x (the
\* empty key and x itself included when stored), each once, and never fails:
\* at a token with no matching child it stops after the keys found so far.
C8_PrefixesAreStoredPrefixKeys ==
    call.op = "prefixes" =>
        /\ ret.err = "none"
        /\ NoDup(ret.val)
        /\ Range(ret.val) = {k \in added : IsPrefixOf(k, call.arg)}

\* C8 witness: prefixes(x) met a token with no child after yielding two keys,
\* the empty key among them
C8_Witness ==
    /\ call.op = "prefixes"
    /\ ~has_extension_of(root, call.arg)
    /\ Len(ret.val) = 2
    /\ <<>> \in Range(ret.val)

\* C9: maximal_prefix(x) returns the longest stored key that is a prefix of x
\* and raises the KeyError exactly when no stored key is a prefix of x: never
\* when the empty key is stored, and always for a string that is only a
\* proper prefix of stored keys.
C9_MaximalPrefixLongestOrKeyError ==
    call.op = "maximal_prefix" =>
        LET P == {k \in added : IsPrefixOf(k, call.arg)}
        IN  /\ (ret.err = "KeyError") = (P = {})
            /\ ret.err \in {"none", "KeyError"}
            /\ ret.err = "none" =>
                  /\ ret.val \in P
                  /\ \A k \in P : Len(k) <= Len(ret.val)
            /\ <<>> \in added => ret.err = "none"

\* C9 witness: maximal_prefix raised for a non-empty string that is only a
\* proper prefix of stored keys
C9_Witness ==
    /\ call.op = "maximal_prefix"
    /\ ret.err = "KeyError"
    /\ Len(call.arg) >= 1
    /\ IsStoredPrefix(call.arg)

\* C10: for p a prefix of some stored key, suffixes(p, members_only) yields,
\* each once, exactly the s with p+s a stored key (members_only) or p+s a
\* prefix of a stored key, the empty s included (not members_only);
\* extensions(p, members_only) yields p+s for the same s, so a members-only
\* extension is a contained key that begins with p.
C10_SuffixesAndExtensionsExact ==
    LET p == call.arg
        S == IF call.members_only
             THEN {s \in Keys : p \o s \in added}
             ELSE {s \in Keys : IsStoredPrefix(p \o s)}
    IN  (call.op \in {"suffixes", "extensions"} /\ IsStoredPrefix(p)) =>
            /\ ret.err = "none"
            /\ NoDup(ret.val)
            /\ call.op = "suffixes" => Range(ret.val) = S
            /\ call.op = "extensions" => Range(ret.val) = {p \o s : s \in S}
            /\ (call.op = "extensions" /\ call.members_only) =>
                  \A k \in Range(ret.val) : contains(root, k) /\ IsPrefixOf(p, k)

\* C10 witness: extensions(p, members_only=False) of a non-empty p gave p
\* itself and two longer prefixes
C10_Witness ==
    /\ call.op = "extensions"
    /\ ~call.members_only
    /\ Len(call.arg) = 1
    /\ Len(ret.val) = 3
    /\ call.arg \in Range(ret.val)

\* C11: for p a prefix of some stored key, successors(p) yields, each once,
\* exactly the p+t with t one token and p+t a prefix of some stored key; so
\* has_extension_of is true of every result, and the result is empty when p
\* is a stored key with no longer extension.
C11_SuccessorsAreOneTokenPrefixes ==
    LET p == call.arg
    IN  (call.op = "successors" /\ IsStoredPrefix(p)) =>
            /\ ret.err = "none"
            /\ NoDup(ret.val)
            /\ Range(ret.val) = {p \o <<t>> : t \in {u \in Tokens : IsStoredPrefix(p \o <<u>>)}}
            /\ \A r \in Range(ret.val) : has_extension_of(root, r)
            /\ (p \in added /\ ~\E k \in added : IsPrefixOf(p, k) /\ k # p)
                  => ret.val = <<>>

\* C11 witness: successors(p) of a non-empty p gave two one-token extensions
C11_Witness ==
    /\ call.op = "successors"
    /\ Len(call.arg) = 1
    /\ Len(ret.val) = 2

\* C12: for TrieSets a and b with the same null element, union(a, b) equals
\* union(b, a) and intersection(a, b) equals intersection(b, a) (equality
\* being issubset both ways), intersection(a, b) is a subset of a, a is a
\* subset of union(a, b), and neither operand's tree is changed.
C12_UnionIntersectionAlgebra ==
    /\ [](call.op \in {"union", "intersection"} =>
            LET a == ret.val.self
                b == ret.val.trieset
                r == ret.val.result
            IN  /\ (ret.err = "none") = (a.null_element = b.null_element)
                /\ ret.err = "none" =>
                     \A o \in TokenOrders :
                        LET rev == IF call.op = "union" THEN union(b, a, o)
                                   ELSE intersection(b, a, o)
                        IN  /\ rev.err = "none"
                            /\ eq(r, rev.val, o)
                            /\ eq(rev.val, r, o)
                            /\ call.op = "union" => issubset(a, r, o)
                            /\ call.op = "intersection" => issubset(r, a, o))
    /\ [][call'.op \in {"union", "intersection"} => root' = root /\ other' = other]_vars

\* C12 witness: an intersection of two TrieSets of two keys each that have
\* exactly one key in common
C12_Witness ==
    /\ call.op = "intersection"
    /\ ret.err = "none"
    /\ Cardinality(added) = 2
    /\ Cardinality(otherAdded) = 2
    /\ Cardinality(TerminalPaths(ret.val.result.root)) = 1

\* C14: whenever a public TrieSet operation fails with an error (TypeError
\* from add, update or the constructor's contents, KeyError from a query,
\* ValueError from union or intersection), the tree is exactly as it was
\* before the call: no node created, no flag changed.
C14_FailedCallLeavesTreeAsItWas ==
    [][ret'.err # "none" => (root' = root /\ other' = other)]_vars

\* the 0-based positions at which pattern occurs in the first n tokens of text
Occurrences(n) ==
    {i \in 0..(n - Len(pattern)) : SubSeq(text, i + 1, i + Len(pattern)) = pattern}

\* C13: for every text and every non-empty pattern, KnuthMorrisPratt yields
\* exactly the 0-based positions at which pattern occurs in text as a
\* contiguous run, each once, in strictly increasing order, overlapping
\* occurrences included.
C13_KMPYieldsAllOccurrences ==
    (pattern # <<>> /\ pc \in {"for_c", "while_match", "done"}) =>
        /\ \A i, j \in DOMAIN yielded : i < j => yielded[i] < yielded[j]
        /\ pc = "while_match" => Range(yielded) = Occurrences(nread - 1)
        /\ pc = "for_c" => Range(yielded) = Occurrences(nread)
        /\ pc = "done" => Range(yielded) = Occurrences(Len(text))

\* C13 witness: the text was read to its end and the pattern of three tokens
\* was found at 1 and at 3, two occurrences that overlap
C13_Witness ==
    /\ pc = "done"
    /\ Len(pattern) = 3
    /\ yielded = <<1, 3>>

\* C15: the shift table has |pattern|+1 entries and entry j is between 1 and
\* max(1, j); before each text token is read 0 <= matchLen <= |pattern|,
\* startPos + matchLen is the number of tokens read and the first matchLen
\* tokens of pattern are the text tokens from startPos on; inside the shift
\* loop matchLen never goes below -1, no index is out of range, and the loop
\* ends after finitely many shifts (each moves startPos forward, and startPos
\* never passes the number of tokens read).
C15_KMPLoopInvariants ==
    /\ [](pc # "none" =>
            /\ pc # "IndexError"
            /\ Len(shifts) = Len(pattern) + 1
            /\ \A j \in 0..Len(pattern) :
                  1 <= shifts[j + 1] /\ shifts[j + 1] <= (IF j > 1 THEN j ELSE 1)
            /\ pc = "for_c" =>
                  /\ 0 <= matchLen /\ matchLen <= Len(pattern)
                  /\ startPos + matchLen = nread
                  /\ SubSeq(pattern, 1, matchLen)
                        = SubSeq(text, startPos + 1, startPos + matchLen)
            /\ pc = "while_match" =>
                  /\ -1 <= matchLen /\ matchLen <= Len(pattern)
                  /\ startPos <= nread)
    /\ [][(pc = "while_match" /\ pc' = "while_match") => startPos' > startPos]_vars

\* C15 witness: in the shift loop, after a match was yielded, matchLen has
\* come down to -1 for a pattern of at least two tokens
C15_Witness ==
    /\ pc = "while_match"
    /\ matchLen = -1
    /\ Len(pattern) >= 2
    /\ Len(yielded) >= 1

=============================================================================
